---- MODULE Spec2Model ----
(***************************************************************************)
(* A model of lib/model.py of text2painting: the GANModel training-state   *)
(* container (four networks, four optimizers, four plateau schedulers),    *)
(* its checkpoint writer/reader, its log writer and its staged fit step.   *)
(*                                                                         *)
(* Tensors are abstracted: the parameters of a network are a version       *)
(* number that an effective optimizer step advances, a gradient is the set *)
(* of loss terms that were back-propagated into the network, and a loss or *)
(* accuracy value is a small number computed from the batch and the        *)
(* parameter versions.  Text (file names, int() parsing, str.format) is    *)
(* modelled character by character.                                        *)
(***************************************************************************)
EXTENDS Integers, Sequences, FiniteSets, TLC

(***************************************************************************)
(* Bounds of the model                                                     *)
(***************************************************************************)
MaxCalls == 3          \* method calls made on the object in one behaviour
MaxNameLen == 2        \* characters in config.MODEL_NAME
MaxUpdates == 103      \* update_lr calls in a learning-rate run
MaxFits == 1           \* fit calls in a learning-rate run

(***************************************************************************)
(* Program constants                                                       *)
(***************************************************************************)
PROB_FLIP_LABELS == 10 \* config.PROB_FLIP_LABELS, in percent (non-zero)
Patience == 100        \* ReduceLROnPlateau(patience=100)
EpochWidth == 4        \* "{:04}" in the checkpoint file name
IterWidth == 8         \* "{:08}" in the checkpoint file name
LossDigits == 4        \* "{:.4f}" in file names and log rows

Nets == {"G", "D", "G_refiner", "D_decider"}
LossNames == {"G", "D", "G_refiner", "D_decider", "gp_fr", "gp_rf", "gp_decider_fr"}
AccNames == {"D_rr", "D_rf", "D_fr", "D_decider_rr", "D_decider_fr"}
GanLossTypes == {"lsgan", "wgangp"}
NameAlphabet == {"g", "_", "7"}
Batches == {0, 1}
EpochArgs == {3, 12}
LossArgs == {-10000, 5000}     \* -1.0 and 0.5 in ten-thousandths
Phases == {"train", "val"}
LogPhases == {"train", "val", "test"}
LossMod == 2
InfBest == 1000000             \* stands for float('inf')

(***************************************************************************)
(* Text: str.format, str.split, os.path.basename, int()                    *)
(***************************************************************************)
DigitChars == <<"0", "1", "2", "3", "4", "5", "6", "7", "8", "9">>

IsDigit(c) == \E i \in 1..10 : DigitChars[i] = c

DigitVal(c) == (CHOOSE i \in 1..10 : DigitChars[i] = c) - 1

\* Recursive calls are handed a value bound by a set constructor, so that
\* an argument is evaluated once however often the callee reads it.
RECURSIVE DigitsOf(_)
DigitsOf(n) ==
  IF n < 10 THEN <<DigitChars[n + 1]>>
  ELSE CHOOSE r \in {DigitsOf(q) \o <<DigitChars[(n % 10) + 1]>> : q \in {n \div 10}} : TRUE

RECURSIVE ZeroPad(_, _)
ZeroPad(s, w) ==
  IF Len(s) >= w THEN s
  ELSE CHOOSE r \in {ZeroPad(t, w) : t \in {<<"0">> \o s}} : TRUE

\* "{:0w}".format(n) for an int n: sign-aware zero padding
FormatInt(n, w) ==
  IF n >= 0 THEN ZeroPad(DigitsOf(n), w)
  ELSE <<"-">> \o ZeroPad(DigitsOf(0 - n), w - 1)

\* "{:.4f}".format(v) for v given in ten-thousandths
FormatF4(v) ==
  (IF v < 0 THEN <<"-">> ELSE <<>>)
    \o DigitsOf((IF v < 0 THEN 0 - v ELSE v) \div 10000) \o <<".">>
    \o ZeroPad(DigitsOf((IF v < 0 THEN 0 - v ELSE v) % 10000), LossDigits)

\* the first index of character c in s, or 0
IndexOf(s, c) ==
  IF \E i \in 1..Len(s) : s[i] = c
  THEN CHOOSE i \in 1..Len(s) : s[i] = c /\ \A j \in 1..(i - 1) : s[j] # c
  ELSE 0

\* s.split(c): the list of pieces between occurrences of c
RECURSIVE Split(_, _)
Split(s, c) ==
  CHOOSE r \in {IF i = 0 THEN <<s>>
                ELSE CHOOSE q \in {<<SubSeq(s, 1, i - 1)>> \o Split(t, c) :
                                     t \in {SubSeq(s, i + 1, Len(s))}} : TRUE
                  : i \in {IndexOf(s, c)}} : TRUE

\* the last index of character c in s, or 0
LastIndexOf(s, c) ==
  IF \E i \in 1..Len(s) : s[i] = c
  THEN CHOOSE i \in 1..Len(s) : s[i] = c /\ \A j \in (i + 1)..Len(s) : s[j] # c
  ELSE 0

\* os.path.basename: what follows the last slash
Basename(p) == SubSeq(p, LastIndexOf(p, "/") + 1, Len(p))

\* os.path.join of a directory and a file name
PathJoin(d, f) == d \o <<"/">> \o f

\* int(tok): an optional sign followed by at least one digit, else ValueError
IntBody(tok) ==
  IF Len(tok) > 0 /\ tok[1] \in {"-", "+"} THEN SubSeq(tok, 2, Len(tok)) ELSE tok

IsIntLiteral(tok) ==
  \E b \in {IntBody(tok)} :
    /\ Len(b) > 0
    /\ \A i \in 1..Len(b) : IsDigit(b[i])

RECURSIVE DigitsValue(_)
DigitsValue(ds) ==
  IF Len(ds) = 0 THEN 0
  ELSE CHOOSE r \in {10 * DigitsValue(t) + DigitVal(ds[Len(ds)]) :
                       t \in {SubSeq(ds, 1, Len(ds) - 1)}} : TRUE

IntOf(tok) ==
  CHOOSE r \in {IF Len(tok) > 0 /\ tok[1] = "-" THEN 0 - DigitsValue(b)
                ELSE DigitsValue(b) : b \in {IntBody(tok)}} : TRUE

RECURSIVE SeqsUpTo(_, _)
SeqsUpTo(S, n) ==
  IF n = 0 THEN {<<>>}
  ELSE UNION {shorter \cup {Append(s, c) : s \in shorter, c \in S} :
                shorter \in {SeqsUpTo(S, n - 1)}}

ModelNames == SeqsUpTo(NameAlphabet, MaxNameLen) \ {<<>>}

(***************************************************************************)
(* State                                                                   *)
(***************************************************************************)
VARIABLES
  config,         \* MODEL_NAME, GAN_LOSS1, GAN_LOSS2 and the reset_lr argument
  epoch,          \* self.epoch
  params,         \* parameter version of each network
  requires_grad,  \* requires_grad of (all) the parameters of each network
  grad,           \* .grad of each network: the loss terms accumulated in it
  optim,          \* state of each Adam optimizer
  sched,          \* state of each ReduceLROnPlateau scheduler
  loss,           \* self.loss_*
  acc,            \* self.accuracy_*
  state_dict,     \* self.state_dict
  model_dir,      \* self.model_dir
  files,          \* the checkpoint files on disk
  train_log,      \* content of the train log file, a list of lines
  val_log,        \* content of the validation log file, a list of lines
  shelf,          \* the log files of the model directories other than model_dir
  observed,       \* per network, the plateau its own training loss is on
  last,           \* the last method call, its arguments and what it did
  nCalls          \* number of method calls made so far

vars == <<config, epoch, params, requires_grad, grad, optim, sched, loss, acc,
          state_dict, model_dir, files, train_log, val_log, shelf, observed,
          last, nCalls>>

\* config.LOG_HEADER, one line
LOG_HEADER == <<"h">>

\* no training loss seen yet by update_lr
NoPlateau == [best |-> InfBest, bad |-> 0]

NoLoss == [set |-> FALSE, val |-> 0, flip |-> 0, terms |-> <<>>]

NoCall == [op |-> "init", phase |-> "", train_D |-> FALSE, train_G |-> FALSE,
           raised |-> "", trace |-> <<>>, arg |-> 0,
           file |-> <<>>, result |-> <<>>]

\* torch.optim.Adam(lr=config.LR): lr is LR * 0.75^lr_cuts, t counts the
\* steps that moved the parameters
NewOptimizer == [lr_cuts |-> 0, t |-> 0]

\* ReduceLROnPlateau(mode='min', factor=0.75, threshold=0.01, patience=100)
NewScheduler == [best |-> InfBest, num_bad_epochs |-> 0, last_epoch |-> 0]

(***************************************************************************)
(* Checkpoints: set_state_dict, save_model_dict, load_state_dict           *)
(***************************************************************************)
\* set_state_dict that forgets the last scheduler
StateDictOfNoDeciderScheduler(p, o, s) ==
  [g |-> p["G"], g_refiner |-> p["G_refiner"],
   d |-> p["D"], d_decider |-> p["D_decider"],
   g_optim |-> o["G"], d_optim |-> o["D"],
   g_refiner_optim |-> o["G_refiner"], d_decider_optim |-> o["D_decider"],
   g_lr_scheduler |-> s["G"], d_lr_scheduler |-> s["D"],
   g_refiner_lr_scheduler |-> s["G_refiner"]]

\* the dictionary set_state_dict fills, in train mode
StateDictOf(p, o, s) ==
  [g |-> p["G"], g_refiner |-> p["G_refiner"],
   d |-> p["D"], d_decider |-> p["D_decider"],
   g_optim |-> o["G"], d_optim |-> o["D"],
   g_refiner_optim |-> o["G_refiner"], d_decider_optim |-> o["D_decider"],
   g_lr_scheduler |-> s["G"], d_lr_scheduler |-> s["D"],
   g_refiner_lr_scheduler |-> s["G_refiner"],
   d_decider_lr_scheduler |-> s["D_decider"]]

\* the file name save_model_dict formats
ModelFilename(name, e, it, lg, ld, lgr, ldd) ==
  name \o <<"_">> \o FormatInt(e, EpochWidth) \o <<"_">> \o FormatInt(it, IterWidth)
       \o <<"_">> \o FormatF4(lg) \o <<"_">> \o FormatF4(ld)
       \o <<"_">> \o FormatF4(lgr) \o <<"_">> \o FormatF4(ldd)
       \o <<".", "p", "t", "h">>

\* the token load_state_dict hands to int()
EpochToken(model_file) == Split(Basename(model_file), "_")[2]

\* "{}_{}".format(model_name, get_uuid()) under config.MODEL_DIR
NewModelDir(name) == PathJoin(<<"m">>, name \o <<"_", "u">>)

\* GANModel(config, model_file=None, mode='train', reset_lr): a new model
InitWith(names, gans, resets) ==
  /\ config \in [MODEL_NAME : names, GAN_LOSS1 : gans,
                 GAN_LOSS2 : gans, reset_lr : resets]
  /\ epoch = 1
  /\ params = [n \in Nets |-> 0]
  /\ requires_grad = [n \in Nets |-> TRUE]
  /\ grad = [n \in Nets |-> {}]
  /\ optim = [n \in Nets |-> NewOptimizer]
  /\ sched = [n \in Nets |-> NewScheduler]
  /\ loss = [l \in LossNames |-> NoLoss]
  /\ acc = [a \in AccNames |-> 0]
  /\ state_dict = StateDictOf(params, optim, sched)
  /\ model_dir = NewModelDir(config.MODEL_NAME)
  /\ files = {}
  /\ train_log = <<LOG_HEADER>>
  /\ val_log = <<LOG_HEADER>>
  /\ shelf = {}
  /\ observed = [n \in Nets |-> NoPlateau]
  /\ last = NoCall
  /\ nCalls = 0

SaveModelDict(e, it, lv) ==
  LET model_file == PathJoin(model_dir,
                      ModelFilename(config.MODEL_NAME, e, it, lv, lv, lv, lv))
      sd == StateDictOf(params, optim, sched)
  IN /\ state_dict' = sd
     /\ files' = {f \in files : f.path # model_file}
                   \cup {[path |-> model_file, content |-> sd]}
     /\ last' = [NoCall EXCEPT !.op = "save_model_dict", !.arg = e,
                               !.file = model_file]
     /\ nCalls' = nCalls + 1
     /\ UNCHANGED <<config, epoch, params, requires_grad, grad, optim, sched,
                    loss, acc, model_dir, train_log, val_log, shelf, observed>>

\* load_state_dict(model_file) of a file that exists
LoadStateDict(f) ==
  LET tok == EpochToken(f.path)
      st == f.content
      p == [n \in Nets |-> CASE n = "G" -> st.g [] n = "G_refiner" -> st.g_refiner
                             [] n = "D" -> st.d [] n = "D_decider" -> st.d_decider]
      o == [n \in Nets |-> CASE n = "G" -> st.g_optim
                             [] n = "G_refiner" -> st.g_refiner_optim
                             [] n = "D" -> st.d_optim
                             [] n = "D_decider" -> st.d_decider_optim]
      o2 == IF config.reset_lr THEN [n \in Nets |-> [o[n] EXCEPT !.lr_cuts = 0]]
            ELSE o
      s == [n \in Nets |-> CASE n = "G" -> st.g_lr_scheduler
                             [] n = "G_refiner" -> st.g_refiner_lr_scheduler
                             [] n = "D" -> st.d_lr_scheduler
                             [] n = "D_decider" -> st.d_decider_lr_scheduler]
  IN /\ nCalls' = nCalls + 1
     /\ IF IsIntLiteral(tok)
        THEN /\ epoch' = IntOf(tok) + 1
             /\ params' = p
             /\ optim' = o2
             /\ sched' = s
             /\ state_dict' = StateDictOf(p, o2, s)
             /\ last' = [NoCall EXCEPT !.op = "load_state_dict", !.file = f.path]
        ELSE /\ last' = [NoCall EXCEPT !.op = "load_state_dict", !.file = f.path,
                                       !.raised = "ValueError"]
             /\ UNCHANGED <<epoch, params, optim, sched, state_dict>>
     /\ UNCHANGED <<config, requires_grad, grad, loss, acc, model_dir, files,
                    train_log, val_log, shelf, observed>>

(***************************************************************************)
(* The fit step.  A call is a list of primitive operations, executed in    *)
(* order on a record m of the fields the call touches.  m.trace lists what *)
(* was executed, each entry with the requires_grad flags at that moment;   *)
(* m.raised names the exception that ended the call, after which nothing   *)
(* more is executed.                                                       *)
(***************************************************************************)
BoolStr(b) == IF b THEN "True" ELSE "False"

Op(op, net, arg, flag, flip) ==
  [op |-> op, net |-> net, arg |-> arg, flag |-> flag, flip |-> flip]

Emit(m, ev, net, arg, flip) ==
  [m EXCEPT !.trace = Append(@, [ev |-> ev, net |-> net, arg |-> arg,
                                 flip |-> flip, rg |-> m.rg])]

\* net(x) in forward(): the output's graph reaches the parameters of the
\* network only if they require grad now
Forward(m, n) ==
  Emit([m EXCEPT !.tracked[n] = m.rg[n]], "forward", n, "", 0)

\* set_requires_grad(net, requires_grad)
SetRequiresGrad(m, n, b) ==
  Emit([m EXCEPT !.rg[n] = b], "set_requires_grad", n, BoolStr(b), 0)

\* optimizer.zero_grad()
ZeroGrad(m, n) == Emit([m EXCEPT !.grad[n] = {}], "zero_grad", n, "", 0)

\* optimizer.step(): Adam moves the parameters that hold a gradient
OptimizerStep(m, n) ==
  Emit(IF m.grad[n] # {}
       THEN [m EXCEPT !.params[n] = @ + 1, !.optim[n].t = @ + 1]
       ELSE m,
       "step", n, "", 0)

\* the networks whose parameters the graph of a loss term reaches.  The
\* discriminators run inside the backward_* function, so they count with
\* their present flag; fake_images and refined were made by the forward
\* pass at the start of fit and are detached in the discriminator stages.
\* The three discriminator terms are rr, fr and rf.
\* A gradient penalty (get_paired_gradient_penalty and
\* get_single_gradient_penalty of lib/utils) differentiates with respect to
\* an interpolated input, "gp_input", so its graph is never empty; it
\* reaches the discriminator and no generator.
PenaltyLeaves(m, d) == {n \in {d} : m.rg[n]} \cup {"gp_input"}

GraphLeaves(m, stage, term) ==
  LET fake == {n \in {"G"} : m.tracked[n]}
      refined == {n \in {"G", "G_refiner"} : m.tracked[n]}
      own(d) == {n \in {d} : m.rg[n]}
  IN CASE stage = "D" /\ term \in {"rr", "fr", "rf"} -> own("D")
       [] stage = "D" /\ term \in {"gp_fr", "gp_rf"} -> PenaltyLeaves(m, "D")
       [] stage = "D_decider" /\ term \in {"rr", "fr"} -> own("D_decider")
       [] stage = "D_decider" /\ term = "gp_decider_fr" ->
            PenaltyLeaves(m, "D_decider")
       [] stage = "G" /\ term = "dist" -> fake
       [] stage = "G" /\ term = "GAN" -> fake \cup own("D")
       [] stage = "G_refiner" /\ term = "dist" -> refined
       [] stage = "G_refiner" /\ term = "GAN" -> refined \cup own("D_decider")

\* loss.backward(): gradients accumulate in the parameters the graph
\* reaches; a tensor whose graph reaches nothing has no grad_fn and
\* autograd raises RuntimeError
TensorBackward(m, stage, term) ==
  IF GraphLeaves(m, stage, term) = {}
  THEN [m EXCEPT !.raised = "RuntimeError"]
  ELSE Emit([m EXCEPT !.grad = [k \in Nets |->
                        IF k \in GraphLeaves(m, stage, term)
                        THEN m.grad[k] \cup {<<stage, term>>} ELSE m.grad[k]]],
            ".backward", stage, term, 0)

\* the networks a loss or accuracy value depends on
ValueNets(name) ==
  CASE name \in {"D_rr", "D_rf", "gp_rf"} -> {"D"}
    [] name \in {"D_fr", "gp_fr", "D", "G"} -> {"D", "G"}
    [] name = "D_decider_rr" -> {"D_decider"}
    [] name \in {"D_decider_fr", "gp_decider_fr", "D_decider", "G_refiner"} ->
         {"D_decider", "G", "G_refiner"}

\* the value a criterion returns on this batch with these parameters
Value(m, name) ==
  (m.data + m.params["G"] * (IF "G" \in ValueNets(name) THEN 1 ELSE 0)
          + m.params["D"] * (IF "D" \in ValueNets(name) THEN 1 ELSE 0)
          + m.params["G_refiner"] * (IF "G_refiner" \in ValueNets(name) THEN 1 ELSE 0)
          + m.params["D_decider"] * (IF "D_decider" \in ValueNets(name) THEN 1 ELSE 0)
          + (IF name \in {"D_rf", "gp_rf"} THEN 1 ELSE 0)) % LossMod

\* loss_D_rr + (loss_D_rf + loss_D_fr) / 2, counted in halves
LossD(rr, rf, fr) == 2 * rr + (rf + fr)

\* the loss terms self.loss_<l> is formed from, where the model keeps them
LossTerms(m, l) ==
  IF l = "D" THEN <<Value(m, "D_rr"), Value(m, "D_rf"), Value(m, "D_fr")>>
  ELSE <<>>

\* self.loss_<l> = ...
SetLoss(m, l, flip) ==
  Emit([m EXCEPT !.loss[l] =
          [set |-> TRUE, flip |-> flip, terms |-> LossTerms(m, l),
           val |-> IF l = "D"
                   THEN LossD(LossTerms(m, l)[1], LossTerms(m, l)[2],
                              LossTerms(m, l)[3])
                   ELSE Value(m, l)]],
       "loss", l, "", flip)

\* self.accuracy_<a> = ...
SetAccuracy(m, a, flip) ==
  Emit([m EXCEPT !.acc[a] = Value(m, a)], "accuracy", a, "", flip)

\* one primitive operation
Exec(m, i) ==
  CASE i.op = "forward" -> Forward(m, i.net)
    [] i.op = "set_requires_grad" -> SetRequiresGrad(m, i.net, i.flag)
    [] i.op = "zero_grad" -> ZeroGrad(m, i.net)
    [] i.op = "step" -> OptimizerStep(m, i.net)
    [] i.op = ".backward" -> TensorBackward(m, i.net, i.arg)
    [] i.op = "loss" -> SetLoss(m, i.net, i.flip)
    [] i.op = "accuracy" -> SetAccuracy(m, i.net, i.flip)
    [] i.op = "call" -> Emit(m, i.arg, i.net, BoolStr(i.flag), i.flip)

\* execute a list of operations, stopping at an exception
RECURSIVE Run(_, _)
Run(m, prog) ==
  IF Len(prog) = 0 \/ m.raised # "" THEN m
  ELSE CHOOSE r \in {Run(x, t) : x \in {Exec(m, Head(prog))}, t \in {Tail(prog)}} : TRUE

When(c, prog) == IF c THEN prog ELSE <<>>

\* backward_D that also back-propagates the real-fake loss
BackwardDWithRf(update, flip) ==
  <<Op("call", "D", "backward_D", update, flip),
    Op("accuracy", "D_rr", "", FALSE, flip)>>
  \o When(update, <<Op(".backward", "D", "rr", FALSE, 0)>>)
  \o <<Op("accuracy", "D_fr", "", FALSE, flip)>>
  \o When(update, <<Op(".backward", "D", "fr", FALSE, 0)>>)
  \o <<Op("accuracy", "D_rf", "", FALSE, flip)>>
  \o When(update, <<Op(".backward", "D", "rf", FALSE, 0)>>)
  \o When(config.GAN_LOSS1 = "wgangp",
          <<Op("loss", "gp_fr", "", FALSE, 0), Op("loss", "gp_rf", "", FALSE, 0)>>
          \o When(update, <<Op(".backward", "D", "gp_fr", FALSE, 0),
                            Op(".backward", "D", "gp_rf", FALSE, 0)>>))
  \o <<Op("loss", "D", "", FALSE, flip)>>

\* backward_D(rr_pair, rf_pair, fr_pair, update, prob_flip_labels)
BackwardD(update, flip) ==
  <<Op("call", "D", "backward_D", update, flip),
    Op("accuracy", "D_rr", "", FALSE, flip)>>
  \o When(update, <<Op(".backward", "D", "rr", FALSE, 0)>>)
  \o <<Op("accuracy", "D_fr", "", FALSE, flip)>>
  \o When(update, <<Op(".backward", "D", "fr", FALSE, 0)>>)
  \o <<Op("accuracy", "D_rf", "", FALSE, flip)>>
  \o When(config.GAN_LOSS1 = "wgangp",
          <<Op("loss", "gp_fr", "", FALSE, 0), Op("loss", "gp_rf", "", FALSE, 0)>>
          \o When(update, <<Op(".backward", "D", "gp_fr", FALSE, 0),
                            Op(".backward", "D", "gp_rf", FALSE, 0)>>))
  \o <<Op("loss", "D", "", FALSE, flip)>>

\* backward_D_decider(rr_pair, fr_refined_pair, update, prob_flip_labels)
BackwardDDecider(update, flip) ==
  <<Op("call", "D_decider", "backward_D_decider", update, flip),
    Op("accuracy", "D_decider_rr", "", FALSE, flip)>>
  \o When(update, <<Op(".backward", "D_decider", "rr", FALSE, 0)>>)
  \o <<Op("accuracy", "D_decider_fr", "", FALSE, flip)>>
  \o When(update, <<Op(".backward", "D_decider", "fr", FALSE, 0)>>)
  \o When(config.GAN_LOSS2 = "wgangp",
          <<Op("loss", "gp_decider_fr", "", FALSE, 0)>>
          \o When(update, <<Op(".backward", "D_decider", "gp_decider_fr", FALSE, 0)>>))
  \o <<Op("loss", "D_decider", "", FALSE, flip)>>

\* backward_G(fr_pair, real_images, update, prob_flip_labels)
BackwardG(update, flip) ==
  <<Op("call", "G", "backward_G", update, flip)>>
  \o When(update, <<Op(".backward", "G", "dist", FALSE, 0),
                    Op(".backward", "G", "GAN", FALSE, 0)>>)
  \o <<Op("loss", "G", "", FALSE, flip)>>

\* backward_G_refiner(fr_refined_pair, real_images, update, prob_flip_labels)
BackwardGRefiner(update, flip) ==
  <<Op("call", "G_refiner", "backward_G_refiner", update, flip)>>
  \o When(update, <<Op(".backward", "G_refiner", "dist", FALSE, 0),
                    Op(".backward", "G_refiner", "GAN", FALSE, 0)>>)
  \o <<Op("loss", "G_refiner", "", FALSE, flip)>>

\* "Update D" in fit
StageD(train_D) ==
  <<Op("set_requires_grad", "D", "", train_D, 0), Op("zero_grad", "D", "", FALSE, 0)>>
  \o BackwardD(train_D, PROB_FLIP_LABELS)
  \o When(train_D, <<Op("step", "D", "", FALSE, 0)>>)

\* "Update G" that leaves D as the D stage set it
StageGKeepsD(train_G) ==
  <<Op("set_requires_grad", "G", "", train_G, 0), Op("zero_grad", "G", "", FALSE, 0)>>
  \o BackwardG(train_G, PROB_FLIP_LABELS)
  \o When(train_G, <<Op("step", "G", "", FALSE, 0)>>)

\* "Update G" in fit
StageG(train_G) ==
  <<Op("set_requires_grad", "D", "", FALSE, 0),
    Op("set_requires_grad", "G", "", train_G, 0), Op("zero_grad", "G", "", FALSE, 0)>>
  \o BackwardG(train_G, PROB_FLIP_LABELS)
  \o When(train_G, <<Op("step", "G", "", FALSE, 0)>>)

\* "Update D_decider" in fit
StageDDecider(train_D) ==
  <<Op("set_requires_grad", "D_decider", "", train_D, 0),
    Op("zero_grad", "D_decider", "", FALSE, 0)>>
  \o BackwardDDecider(train_D, PROB_FLIP_LABELS)
  \o When(train_D, <<Op("step", "D_decider", "", FALSE, 0)>>)

\* "Update G_refiner" in fit
StageGRefiner(train_G) ==
  <<Op("set_requires_grad", "D_decider", "", FALSE, 0),
    Op("set_requires_grad", "G_refiner", "", train_G, 0),
    Op("zero_grad", "G_refiner", "", FALSE, 0)>>
  \o BackwardGRefiner(train_G, PROB_FLIP_LABELS)
  \o When(train_G, <<Op("step", "G_refiner", "", FALSE, 0)>>)

\* the else branch of fit: any phase other than 'train'
EvalOnly ==
  BackwardD(FALSE, 0) \o BackwardG(FALSE, 0) \o BackwardDDecider(FALSE, 0)

\* the body of fit(data, phase, train_D, train_G)
FitProgram(phase, train_D, train_G) ==
  <<Op("forward", "G", "", FALSE, 0), Op("forward", "G_refiner", "", FALSE, 0)>>
  \o (IF phase = "train"
      THEN StageD(train_D) \o StageG(train_G)
           \o StageDDecider(train_D) \o StageGRefiner(train_G)
      ELSE EvalOnly)

Fit(data, phase, train_D, train_G) ==
  \E m \in {[params |-> params, rg |-> requires_grad, grad |-> grad,
             optim |-> optim, loss |-> loss, acc |-> acc, data |-> data,
             tracked |-> [n \in {"G", "G_refiner"} |-> FALSE],
             trace |-> <<>>, raised |-> ""]} :
    \E prog \in {FitProgram(phase, train_D, train_G)} :
      \E r \in {Run(m, prog)} :
        /\ params' = r.params
        /\ requires_grad' = r.rg
        /\ grad' = r.grad
        /\ optim' = r.optim
        /\ loss' = r.loss
        /\ acc' = r.acc
        /\ last' = [NoCall EXCEPT !.op = "fit", !.phase = phase,
                                  !.train_D = train_D, !.train_G = train_G,
                                  !.raised = r.raised, !.trace = r.trace,
                                  !.arg = data]
        /\ nCalls' = nCalls + 1
        /\ UNCHANGED <<config, epoch, sched, state_dict, model_dir, files,
                       train_log, val_log, shelf, observed>>

(***************************************************************************)
(* get_losses                                                              *)
(***************************************************************************)
\* the order of the returned tuple
LossOrder == <<"G", "D", "G_refiner", "D_decider", "gp_fr", "gp_rf", "gp_decider_fr">>

\* self.loss_X.item() if self.loss_X else -1.0: None is falsy, and so is a
\* tensor whose value is zero
LossItem(l) == IF l.set /\ l.val # 0 THEN l.val ELSE -1

GetLosses ==
  /\ last' = [NoCall EXCEPT !.op = "get_losses",
                            !.result = [i \in 1..Len(LossOrder) |->
                                          LossItem(loss[LossOrder[i]])]]
  /\ nCalls' = nCalls + 1
  /\ UNCHANGED <<config, epoch, params, requires_grad, grad, optim, sched, loss,
                 acc, state_dict, model_dir, files, train_log, val_log, shelf,
                 observed>>

(***************************************************************************)
(* update_lr: every scheduler is stepped with the metric 0                 *)
(***************************************************************************)
\* ReduceLROnPlateau.is_better, mode 'min', threshold_mode 'rel', 0.01
IsBetter(a, best) == best = InfBest \/ a * 100 < best * 99

\* ReduceLROnPlateau.step(metric) on scheduler s of optimizer o
SchedulerStep(s, o, metric) ==
  LET better == IsBetter(metric, s.best)
      nb == IF better THEN 0 ELSE s.num_bad_epochs + 1
      reduce == nb > Patience
  IN [sched |-> [best |-> IF better THEN metric ELSE s.best,
                 num_bad_epochs |-> IF reduce THEN 0 ELSE nb,
                 last_epoch |-> s.last_epoch + 1],
      optim |-> IF reduce THEN [o EXCEPT !.lr_cuts = @ + 1] ELSE o]

\* what a plateau detector holds after one more update_lr call, had it
\* been shown the training loss of its own network
Observe(o, l) ==
  IF l.set /\ IsBetter(l.val, o.best)
  THEN [best |-> l.val, bad |-> 0]
  ELSE [o EXCEPT !.bad = @ + 1]

\* update_lr with the metric of the schedulers taken from the losses
UpdateLrMetric(metric) ==
  /\ sched' = [n \in Nets |-> SchedulerStep(sched[n], optim[n], metric).sched]
  /\ optim' = [n \in Nets |-> SchedulerStep(sched[n], optim[n], metric).optim]
  /\ observed' = [n \in Nets |-> Observe(observed[n], loss[n])]
  /\ last' = [NoCall EXCEPT !.op = "update_lr"]
  /\ nCalls' = nCalls + 1
  /\ UNCHANGED <<config, epoch, params, requires_grad, grad, loss, acc,
                 state_dict, model_dir, files, train_log, val_log, shelf>>

UpdateLr == UpdateLrMetric(0)

(***************************************************************************)
(* save_logs                                                               *)
(***************************************************************************)
RECURSIVE Join(_, _)
Join(fields, sep) ==
  IF Len(fields) = 0 THEN <<>>
  ELSE IF Len(fields) = 1 THEN fields[1]
  ELSE CHOOSE r \in {fields[1] \o <<sep>> \o Join(t, sep) : t \in {Tail(fields)}} : TRUE

\* a row that also carries the three gradient-penalty losses
LogRowWithPenalties(e, it, lg, ld, lgr, ldd, a1, a2, a3, a4, a5) ==
  Join(<<DigitsOf(e), DigitsOf(it), FormatF4(lg), FormatF4(ld), FormatF4(lgr),
         FormatF4(ldd), FormatF4(lg), FormatF4(lg), FormatF4(lg),
         FormatF4(a1), FormatF4(a2), FormatF4(a3), FormatF4(a4),
         FormatF4(a5)>>, ",")

\* log_row_str without its newline: '{},{},{:.4f},...'.format(...)
LogRow(e, it, lg, ld, lgr, ldd, a1, a2, a3, a4, a5) ==
  Join(<<DigitsOf(e), DigitsOf(it), FormatF4(lg), FormatF4(ld), FormatF4(lgr),
         FormatF4(ldd), FormatF4(a1), FormatF4(a2), FormatF4(a3), FormatF4(a4),
         FormatF4(a5)>>, ",")

\* routing that sends only 'val' to the validation log
LogFileOfValOnly(phase) == IF phase = "val" THEN "val_log" ELSE "train_log"

\* the file save_logs opens for appending
LogFileOf(phase) == IF phase = "train" THEN "train_log" ELSE "val_log"

\* save_logs((phase, epoch, iteration, 4 losses, 5 accuracies))
SaveLogs(phase, e, it, lv, av) ==
  LET row == LogRow(e, it, lv, lv, lv, lv, av, av, av, av, av)
  IN /\ train_log' = IF LogFileOf(phase) = "train_log"
                     THEN Append(train_log, row) ELSE train_log
     /\ val_log' = IF LogFileOf(phase) = "val_log"
                   THEN Append(val_log, row) ELSE val_log
     /\ last' = [NoCall EXCEPT !.op = "save_logs", !.phase = phase, !.arg = e,
                               !.file = row]
     /\ nCalls' = nCalls + 1
     /\ UNCHANGED <<config, epoch, params, requires_grad, grad, optim, sched,
                    loss, acc, state_dict, model_dir, files, shelf, observed>>

(***************************************************************************)
(* GANModel(config, model_file, mode, reset_lr): the constructor           *)
(***************************************************************************)
MODEL_DIR == <<"m">>                  \* config.MODEL_DIR
Uuids == {"u", "v", "w", "x", "y"}    \* what get_uuid() can return
GpuCounts == {1, 2}                   \* torch.cuda.device_count()
Modes == {"train", "test"}
NoFile == [path |-> <<>>, content |-> <<>>]      \* model_file=None

\* os.path.dirname: what precedes the last slash
Dirname(p) == SubSeq(p, 1, LastIndexOf(p, "/") - 1)

\* set_model_dir(): "{}_{}".format(model_name, get_uuid()) under MODEL_DIR
ModelDirOf(name, uuid) == PathJoin(MODEL_DIR, name \o <<"_", uuid>>)

\* set_model_dir(model_file): the directory of the file, under MODEL_DIR
ResumedModelDir(model_file) == PathJoin(MODEL_DIR, Basename(Dirname(model_file)))

\* the attributes that only mode 'train' creates
OptimizerAttrs ==
  <<"G_optimizer", "D_optimizer", "G_refiner_optimizer", "D_decider_optimizer">>

SchedulerAttrs ==
  <<"G_lr_scheduler", "D_lr_scheduler", "G_refiner_lr_scheduler",
    "D_decider_lr_scheduler">>

TrainAttrs == <<"D", "D_decider">> \o OptimizerAttrs \o SchedulerAttrs

\* one statement of the constructor, as far as attributes go
A(op, attr, ok) == [op |-> op, attr |-> attr, ok |-> ok]

Sets(names) == [i \in 1..Len(names) |-> A("set", names[i], TRUE)]

Gets(names) == [i \in 1..Len(names) |-> A("get", names[i], TRUE)]

\* set_state_dict()
SetStateDictAttrs(mode) ==
  Gets(<<"G", "G_refiner">>) \o When(mode = "train", Gets(TrainAttrs))

\* load_state_dict(model_file); tok_ok: int() accepts the epoch token
LoadStateDictAttrs(mode, tok_ok, reset_lr) ==
  <<A("int", "epoch", tok_ok)>>
  \o Gets(<<"G", "G_refiner">>)
  \o When(mode = "train", Gets(TrainAttrs))
  \o When(reset_lr, Gets(OptimizerAttrs))
  \o SetStateDictAttrs(mode)

\* __init__
CtorProgram(mode, has_file, tok_ok, reset_lr, gpus) ==
  Sets(<<"G", "G_refiner">>)
  \o When(mode = "train", Sets(TrainAttrs))
  \o When(gpus > 1, <<A("get", "G", TRUE), A("set", "G", TRUE),
                      A("get", "D", TRUE), A("set", "D", TRUE),
                      A("get", "G_refiner", TRUE), A("set", "G_refiner", TRUE),
                      A("get", "D_decider", TRUE), A("set", "D_decider", TRUE)>>)
  \o (IF has_file
      THEN LoadStateDictAttrs(mode, tok_ok, reset_lr)
           \o <<A("set_model_dir", "model_file", TRUE)>>
      ELSE SetStateDictAttrs(mode)
           \o <<A("set_model_dir", "", TRUE), A("write_header", "", TRUE)>>)
  \o Gets(OptimizerAttrs)
  \o Gets(<<"G", "D", "G_refiner", "D_decider">>)

\* one statement: reading an attribute that was never set raises
\* AttributeError, int() of a token that is no integer raises ValueError
CtorExec(c, i) ==
  CASE i.op = "set" -> [c EXCEPT !.attrs = @ \cup {i.attr}]
    [] i.op = "get" ->
         IF i.attr \in c.attrs THEN [c EXCEPT !.trace = Append(@, i)]
         ELSE [c EXCEPT !.trace = Append(@, i), !.raised = "AttributeError"]
    [] i.op = "int" ->
         IF i.ok THEN c ELSE [c EXCEPT !.raised = "ValueError"]
    [] OTHER -> [c EXCEPT !.trace = Append(@, i)]

RECURSIVE RunCtor(_, _)
RunCtor(c, prog) ==
  IF Len(prog) = 0 \/ c.raised # "" THEN c
  ELSE CHOOSE r \in {RunCtor(x, t) : x \in {CtorExec(c, Head(prog))},
                                      t \in {Tail(prog)}} : TRUE

\* every log file pair on disk, by model directory
AllLogs == shelf \cup {[dir |-> model_dir, train |-> train_log, val |-> val_log]}

\* the log files of directory d; an empty sequence is a file that is not there
LogsAt(disk, d) ==
  IF \E e \in disk : e.dir = d THEN CHOOSE e \in disk : e.dir = d
  ELSE [dir |-> d, train |-> <<>>, val |-> <<>>]

\* what load_state_dict restores from a checkpoint
LoadedParams(st) ==
  [n \in Nets |-> CASE n = "G" -> st.g [] n = "G_refiner" -> st.g_refiner
                    [] n = "D" -> st.d [] n = "D_decider" -> st.d_decider]

LoadedOptim(st, reset_lr) ==
  [n \in Nets |->
     [(CASE n = "G" -> st.g_optim [] n = "G_refiner" -> st.g_refiner_optim
         [] n = "D" -> st.d_optim [] n = "D_decider" -> st.d_decider_optim)
      EXCEPT !.lr_cuts = IF reset_lr THEN 0 ELSE @]]

LoadedSched(st) ==
  [n \in Nets |-> CASE n = "G" -> st.g_lr_scheduler
                    [] n = "G_refiner" -> st.g_refiner_lr_scheduler
                    [] n = "D" -> st.d_lr_scheduler
                    [] n = "D_decider" -> st.d_decider_lr_scheduler]

\* GANModel(config, model_file=f, mode, reset_lr) on a machine with gpus
\* GPUs; uuid is what get_uuid() returns.  A constructor that raises leaves
\* the caller with the model it had; what it wrote to disk stays.
Construct(mode, f, reset_lr, gpus, uuid) ==
  \E has_file \in {f # NoFile} :
  \E tok_ok \in {IF has_file THEN IsIntLiteral(EpochToken(f.path)) ELSE TRUE} :
  \E r \in {RunCtor([attrs |-> {}, trace |-> <<>>, raised |-> ""],
                    CtorProgram(mode, has_file, tok_ok, reset_lr, gpus))} :
  \E nd \in {ModelDirOf(config.MODEL_NAME, uuid)} :
  \E wrote \in {\E i \in 1..Len(r.trace) : r.trace[i].op = "write_header"} :
  \E disk \in {IF wrote
               THEN {e \in AllLogs : e.dir # nd}
                      \cup {[dir |-> nd, train |-> <<LOG_HEADER>>,
                             val |-> <<LOG_HEADER>>]}
               ELSE AllLogs} :
  \E md \in {IF r.raised # "" THEN model_dir
             ELSE IF has_file THEN ResumedModelDir(f.path) ELSE nd} :
    /\ has_file \/ \A e \in AllLogs : e.dir # nd
    /\ model_dir' = md
    /\ train_log' = LogsAt(disk, md).train
    /\ val_log' = LogsAt(disk, md).val
    /\ shelf' = {e \in disk : e.dir # md}
    /\ IF r.raised = ""
       THEN /\ config' = [config EXCEPT !.reset_lr = reset_lr]
            /\ epoch' = IF has_file THEN IntOf(EpochToken(f.path)) + 1 ELSE 1
            /\ params' = IF has_file THEN LoadedParams(f.content)
                         ELSE [n \in Nets |-> 0]
            /\ optim' = IF has_file THEN LoadedOptim(f.content, reset_lr)
                        ELSE [n \in Nets |-> NewOptimizer]
            /\ sched' = IF has_file THEN LoadedSched(f.content)
                        ELSE [n \in Nets |-> NewScheduler]
            /\ state_dict' = StateDictOf(params', optim', sched')
            /\ requires_grad' = [n \in Nets |-> TRUE]
            /\ grad' = [n \in Nets |-> {}]
            /\ loss' = [l \in LossNames |-> NoLoss]
            /\ acc' = [a \in AccNames |-> 0]
            /\ observed' = [n \in Nets |-> NoPlateau]
       ELSE UNCHANGED <<config, epoch, params, optim, sched, state_dict,
                        requires_grad, grad, loss, acc, observed>>
    /\ last' = [NoCall EXCEPT !.op = "construct", !.phase = mode,
                              !.raised = r.raised, !.trace = r.trace,
                              !.arg = gpus, !.file = f.path]
    /\ nCalls' = nCalls + 1
    /\ UNCHANGED files

(***************************************************************************)
(* Specifications                                                          *)
(***************************************************************************)
\* the training step: fit and update_lr under every pair of GAN loss types
Init ==
  InitWith({<<"g">>}, GanLossTypes, {FALSE})

Next ==
  /\ nCalls < MaxCalls
  /\ \/ \E data \in Batches, train_D \in BOOLEAN, train_G \in BOOLEAN :
          Fit(data, "train", train_D, train_G)
     \/ \E data \in Batches : Fit(data, "val", TRUE, TRUE)
     \/ UpdateLr
     \/ GetLosses

Spec == Init /\ [][Next]_vars

\* checkpoints: every model name, save, load, and training in between
InitCkpt ==
  InitWith(ModelNames, {"lsgan"}, {FALSE})

NextCkpt ==
  /\ nCalls < MaxCalls
  /\ \/ \E e \in EpochArgs, lv \in LossArgs : SaveModelDict(e, 1, lv)
     \/ \E f \in files : LoadStateDict(f)
     \/ Fit(0, "train", TRUE, TRUE)
     \/ UpdateLr

SpecCkpt == InitCkpt /\ [][NextCkpt]_vars

\* logs: save_logs for every phase, between fit calls
InitLog ==
  InitWith({<<"g">>}, {"lsgan"}, {FALSE})

NextLog ==
  /\ nCalls < MaxCalls
  /\ \/ \E ph \in LogPhases, lv \in LossArgs : SaveLogs(ph, epoch, 1, lv, 5000)
     \/ \E ph \in Phases : Fit(0, ph, TRUE, TRUE)

SpecLog == InitLog /\ [][NextLog]_vars

\* learning rates: a long run of update_lr calls around a few fit calls
InitLR ==
  InitWith({<<"g">>}, {"lsgan"}, {FALSE})

NextLR ==
  \/ /\ sched["G"].last_epoch < MaxUpdates
     /\ UpdateLr
  \/ /\ nCalls - sched["G"].last_epoch < MaxFits
     /\ \E data \in Batches : Fit(data, "train", TRUE, TRUE)

SpecLR == InitLR /\ [][NextLR]_vars

\* construction: new models, resumed models and test-mode models, with logs
\* and checkpoints written in between
InitCtor ==
  InitWith(ModelNames, {"lsgan"}, {FALSE})

NextCtor ==
  /\ nCalls < MaxCalls
  /\ \/ \E mode \in Modes, reset_lr \in BOOLEAN, gpus \in GpuCounts :
          \/ \E uuid \in Uuids : Construct(mode, NoFile, reset_lr, gpus, uuid)
          \/ \E f \in files : Construct(mode, f, reset_lr, gpus, "u")
     \/ \E ph \in Phases : SaveLogs(ph, epoch, 1, 5000, 5000)
     \/ SaveModelDict(epoch, 1, 5000)

SpecCtor == InitCtor /\ [][NextCtor]_vars

(***************************************************************************)
(* Properties                                                              *)
(***************************************************************************)
StateDictKeys ==
  {"g", "d", "g_refiner", "d_decider",
   "g_optim", "d_optim", "g_refiner_optim", "d_decider_optim",
   "g_lr_scheduler", "d_lr_scheduler", "g_refiner_lr_scheduler",
   "d_decider_lr_scheduler"}

\* the file the last call wrote or read
LastFile == CHOOSE f \in files : f.path = last.file

\* the field of a checkpoint's base name that follows "<MODEL_NAME>_"
EpochField(path) ==
  LET base == Basename(path)
      rest == SubSeq(base, Len(config.MODEL_NAME) + 2, Len(base))
  IN Split(rest, "_")[1]

\* C1 as stated: every checkpoint written by save_model_dict contains the
\* epoch index together with the four network, four optimizer and four
\* scheduler snapshots.
C1_CheckpointHoldsEpoch ==
  \A f \in files : StateDictKeys \cup {"epoch"} \subseteq DOMAIN f.content

\* C1 amended: every checkpoint written by save_model_dict contains exactly
\* the twelve snapshots (four networks, four optimizers, four schedulers) as
\* they are at the save and no epoch entry; the epoch index is carried only
\* by the file name, as the field after the model name.
C1_CheckpointContents ==
  /\ \A f \in files : DOMAIN f.content = StateDictKeys
  /\ last.op = "save_model_dict" =>
       /\ \E f \in files : f.path = last.file
       /\ LastFile.content.g = params["G"]
       /\ LastFile.content.d = params["D"]
       /\ LastFile.content.g_refiner = params["G_refiner"]
       /\ LastFile.content.d_decider = params["D_decider"]
       /\ LastFile.content.g_optim = optim["G"]
       /\ LastFile.content.d_optim = optim["D"]
       /\ LastFile.content.g_refiner_optim = optim["G_refiner"]
       /\ LastFile.content.d_decider_optim = optim["D_decider"]
       /\ LastFile.content.g_lr_scheduler = sched["G"]
       /\ LastFile.content.d_lr_scheduler = sched["D"]
       /\ LastFile.content.g_refiner_lr_scheduler = sched["G_refiner"]
       /\ LastFile.content.d_decider_lr_scheduler = sched["D_decider"]
       /\ IsIntLiteral(EpochField(last.file))
       /\ IntOf(EpochField(last.file)) = last.arg

\* a checkpoint was just written after training and a scheduler update
C1_Witness ==
  /\ last.op = "save_model_dict"
  /\ last.arg = 12
  /\ params["D_decider"] > 0
  /\ sched["D_decider"].last_epoch > 0

\* C2 as stated: with reset_lr False, load_state_dict of a file that
\* save_model_dict wrote restores the parameters of the four networks and
\* the state of the four optimizers and four schedulers to the values they
\* had when the checkpoint was saved (the values the file holds).
C2_RoundTrip ==
  (last.op = "load_state_dict" /\ ~config.reset_lr) =>
     /\ last.raised = ""
     /\ \A n \in Nets :
          /\ params[n] = (CASE n = "G" -> LastFile.content.g
                            [] n = "D" -> LastFile.content.d
                            [] n = "G_refiner" -> LastFile.content.g_refiner
                            [] n = "D_decider" -> LastFile.content.d_decider)
          /\ optim[n] = (CASE n = "G" -> LastFile.content.g_optim
                           [] n = "D" -> LastFile.content.d_optim
                           [] n = "G_refiner" -> LastFile.content.g_refiner_optim
                           [] n = "D_decider" -> LastFile.content.d_decider_optim)
          /\ sched[n] = (CASE n = "G" -> LastFile.content.g_lr_scheduler
                           [] n = "D" -> LastFile.content.d_lr_scheduler
                           [] n = "G_refiner" -> LastFile.content.g_refiner_lr_scheduler
                           [] n = "D_decider" -> LastFile.content.d_decider_lr_scheduler)

\* C3 as stated: for every model name and every epoch e, loading the file
\* that save_model_dict(epoch=e, ...) wrote sets the current epoch to e + 1.
C3_ResumeEpoch ==
  last.op = "load_state_dict" =>
    \A e \in EpochArgs, lv \in LossArgs :
      last.file = PathJoin(model_dir,
                    ModelFilename(config.MODEL_NAME, e, 1, lv, lv, lv, lv))
        => (last.raised = "" /\ epoch = e + 1)

\* the rows save_logs appended to the two logs
LogRows ==
  {train_log[i] : i \in 2..Len(train_log)} \cup {val_log[i] : i \in 2..Len(val_log)}

\* a field written with '{:.4f}': digits, a point, four digits
IsF4(field) ==
  LET parts == Split(field, ".")
  IN /\ Len(parts) = 2
     /\ IsIntLiteral(parts[1])
     /\ Len(parts[2]) = LossDigits
     /\ \A i \in 1..Len(parts[2]) : IsDigit(parts[2][i])

\* C4 as stated: every log record holds the phase, the epoch, the
\* iteration, 7 loss values and 5 accuracy values (15 fields).
C4_RowHoldsPhaseAndSevenLosses ==
  \A r \in LogRows : Len(Split(r, ",")) = 1 + 1 + 1 + 7 + 5

\* C4 amended: every log record holds the epoch, the iteration, 4 loss
\* values and 5 accuracy values, all numbers (11 fields); the phase is not
\* written and the three gradient-penalty losses are not logged.
C4_RowFields ==
  \A r \in LogRows :
    LET fields == Split(r, ",")
    IN /\ Len(fields) = 1 + 1 + 4 + 5
       /\ IsIntLiteral(fields[1])
       /\ IsIntLiteral(fields[2])
       /\ \A i \in 3..Len(fields) : IsF4(fields[i])
       /\ last.op = "save_logs" =>
            (last.file = r => IntOf(fields[1]) = last.arg)

\* rows were appended to both logs
C4_Witness ==
  /\ last.op = "save_logs"
  /\ Len(train_log) > 1
  /\ Len(val_log) > 1

\* C5: each save_logs call appends exactly one row to the train log when
\* the phase is 'train' and to the validation log for any other phase,
\* keeps the rows already in that file, and leaves the other file unchanged.
C5_AppendOnlyRouted ==
  [][(last'.op = "save_logs" /\ nCalls' = nCalls + 1) =>
       IF last'.phase = "train"
       THEN /\ Len(train_log') = Len(train_log) + 1
            /\ SubSeq(train_log', 1, Len(train_log)) = train_log
            /\ train_log'[Len(train_log')] = last'.file
            /\ val_log' = val_log
       ELSE /\ Len(val_log') = Len(val_log) + 1
            /\ SubSeq(val_log', 1, Len(val_log)) = val_log
            /\ val_log'[Len(val_log')] = last'.file
            /\ train_log' = train_log]_vars

\* a row of a phase that is neither 'train' nor 'val' was appended after
\* earlier rows
C5_Witness ==
  /\ last.op = "save_logs"
  /\ last.phase = "test"
  /\ Len(val_log) > 2
  /\ Len(train_log) > 1

\* the last call was fit in the 'train' phase
TrainFit == last.op = "fit" /\ last.phase = "train"

\* what the last call executed, as event and network
IsStageEvent(e) ==
  e.ev \in {"zero_grad", "step", "backward_D", "backward_G",
            "backward_D_decider", "backward_G_refiner"}

StageEvents(trace) ==
  [i \in 1..Len(SelectSeq(trace, IsStageEvent)) |->
     <<SelectSeq(trace, IsStageEvent)[i].ev, SelectSeq(trace, IsStageEvent)[i].net>>]

\* zero_grad, backward pass, optimizer step (if enabled) of D, G, D_decider
\* and G_refiner, in this order
StagesInOrder(train_D, train_G) ==
  <<<<"zero_grad", "D">>, <<"backward_D", "D">>>>
  \o When(train_D, <<<<"step", "D">>>>)
  \o <<<<"zero_grad", "G">>, <<"backward_G", "G">>>>
  \o When(train_G, <<<<"step", "G">>>>)
  \o <<<<"zero_grad", "D_decider">>, <<"backward_D_decider", "D_decider">>>>
  \o When(train_D, <<<<"step", "D_decider">>>>)
  \o <<<<"zero_grad", "G_refiner">>, <<"backward_G_refiner", "G_refiner">>>>
  \o When(train_G, <<<<"step", "G_refiner">>>>)

\* C6 as stated: in a train-phase fit the four stages run in the order D,
\* G, D_decider, G_refiner, each as zero_grad, backward pass, then (if
\* enabled) optimizer step, so that the D step precedes G's backward pass
\* and the D_decider step precedes G_refiner's backward pass.
C6_StageOrder ==
  TrainFit => StageEvents(last.trace) = StagesInOrder(last.train_D, last.train_G)

Happened(trace, ev, net) ==
  \E i \in 1..Len(trace) : trace[i].ev = ev /\ trace[i].net = net

\* C7: in every train-phase fit D is frozen while G's backward pass runs
\* and D_decider is frozen while G_refiner's backward pass runs, and when
\* the call returns D and D_decider are both frozen.
C7_SelectiveFreezing ==
  TrainFit =>
    /\ \A i \in 1..Len(last.trace) :
         /\ (last.trace[i].net = "G"
               /\ last.trace[i].ev \in {"backward_G", ".backward", "loss"})
              => ~last.trace[i].rg["D"]
         /\ (last.trace[i].net = "G_refiner"
               /\ last.trace[i].ev \in {"backward_G_refiner", ".backward", "loss"})
              => ~last.trace[i].rg["D_decider"]
    /\ last.raised = "" => (~requires_grad["D"] /\ ~requires_grad["D_decider"])

\* a train-phase fit with both flags on returned after back-propagating
\* through both generators
C7_Witness ==
  /\ TrainFit
  /\ last.train_D /\ last.train_G
  /\ last.raised = ""
  /\ Happened(last.trace, ".backward", "G")
  /\ Happened(last.trace, ".backward", "G_refiner")
  /\ Happened(last.trace, "step", "D_decider")

\* the flag that governs a network in fit
FlagOf(n, train_D, train_G) == IF n \in {"D", "D_decider"} THEN train_D ELSE train_G

\* C8 as stated: in a train-phase fit the D and D_decider optimizers step
\* iff train_D and the G and G_refiner optimizers step iff train_G; a
\* network whose flag is false has requires_grad False, sees no backward
\* call in its stage and keeps its parameters.
C8_FlagGating ==
  [][(last'.op = "fit" /\ last'.phase = "train" /\ nCalls' = nCalls + 1) =>
       \A n \in Nets :
         /\ Happened(last'.trace, "step", n)
              <=> FlagOf(n, last'.train_D, last'.train_G)
         /\ ~FlagOf(n, last'.train_D, last'.train_G) =>
              /\ ~requires_grad'[n]
              /\ ~Happened(last'.trace, ".backward", n)
              /\ params'[n] = params[n]]_vars

UpdateLrStep == last'.op = "update_lr" /\ nCalls' = nCalls + 1

\* C11 as stated: update_lr feeds every scheduler the observed training
\* metric (so a scheduler's best value only ever moves to the loss of its
\* network), and a learning rate is reduced, by one factor of 0.75, only
\* when that loss has not improved for more than 100 consecutive update_lr
\* calls, never while it is improving.
C11_PlateauScheduling ==
  [][UpdateLrStep =>
       \A n \in Nets :
         /\ loss[n].set => sched'[n].best \in {sched[n].best, loss[n].val}
         /\ optim'[n].lr_cuts # optim[n].lr_cuts =>
              /\ optim'[n].lr_cuts = optim[n].lr_cuts + 1
              /\ observed'[n].bad > Patience]_vars

\* a fit call has run: backward_D, which every fit reaches, sets loss_D
FitHasRun == loss["D"].set

\* the GAN loss type that decides whether a gradient penalty is computed
PenaltyType(l) == IF l = "gp_decider_fr" THEN config.GAN_LOSS2 ELSE config.GAN_LOSS1

\* C12 as stated: get_losses returns the seven losses in the order G, D,
\* G_refiner, D_decider, gp_fr, gp_rf, gp_decider_fr; each is the value of
\* the most recent pass that computed it, and -1.0 exactly when it was never
\* computed, which for a gradient penalty is exactly when its GAN loss type
\* is not 'wgangp' or no fit has run.
C12_GetLossesSentinel ==
  last.op = "get_losses" =>
    /\ Len(last.result) = 7
    /\ \A i \in 1..7 :
         /\ loss[LossOrder[i]].set => last.result[i] = loss[LossOrder[i]].val
         /\ last.result[i] = -1 <=> ~loss[LossOrder[i]].set
    /\ \A i \in 5..7 :
         last.result[i] = -1 <=>
           (PenaltyType(LossOrder[i]) # "wgangp" \/ ~FitHasRun)

\* the last step was a constructor call in the given mode
ConstructStep(mode) ==
  last'.op = "construct" /\ last'.phase = mode /\ nCalls' = nCalls + 1

\* a log file that is there is one header line followed by rows
OneHeader(log) ==
  log # <<>> => log[1] = LOG_HEADER /\ \A i \in 2..Len(log) : log[i] # LOG_HEADER

\* C13 as stated: creating a model writes the header once as the first line
\* of both of its logs; constructing a model from a checkpoint saved under
\* the same MODEL_DIR succeeds in the directory the checkpoint is in, and
\* rewrites or truncates no log; save_model_dict leaves the logs alone; so
\* every log is one header followed by the rows appended to it.
C13_HeaderOnceAndResume ==
  [][/\ (ConstructStep("train") /\ last'.file = <<>>) =>
          /\ last'.raised = ""
          /\ train_log' = <<LOG_HEADER>> /\ val_log' = <<LOG_HEADER>>
          /\ shelf' = AllLogs
     /\ (ConstructStep("train") /\ last'.file # <<>>) =>
          /\ last'.raised = ""
          /\ model_dir' = Dirname(last'.file)
          /\ AllLogs' = AllLogs
     /\ last'.op = "save_model_dict" => AllLogs' = AllLogs
     /\ \A e \in AllLogs' : OneHeader(e.train) /\ OneHeader(e.val)]_vars

\* the attributes of discriminators, optimizers and schedulers a
\* constructor call read
TrainAttrReads ==
  {i \in 1..Len(last.trace) :
     last.trace[i].op = "get"
       /\ \E k \in 1..Len(TrainAttrs) : TrainAttrs[k] = last.trace[i].attr}

\* C15 as stated: constructing a model in mode 'test', with or without a
\* model file and with reset_lr either way, completes, and neither the
\* constructor nor load_state_dict nor set_state_dict reads an attribute of
\* a discriminator, an optimizer or a scheduler.
C15_TestModeConstruction ==
  (last.op = "construct" /\ last.phase = "test") =>
    last.raised = "" /\ TrainAttrReads = {}

\* C14 as stated: whatever fit calls came before, a train-phase fit with
\* train_G=True runs its forward pass with G and G_refiner trainable,
\* returns, and its G and G_refiner optimizer steps move the parameters
\* with gradients back-propagated from this call's forward pass.
C14_GeneratorsReenabled ==
  [][(last'.op = "fit" /\ last'.phase = "train" /\ last'.train_G
        /\ nCalls' = nCalls + 1) =>
       /\ \A i \in 1..Len(last'.trace) :
            last'.trace[i].ev = "forward" =>
              last'.trace[i].rg[last'.trace[i].net]
       /\ last'.raised = ""
       /\ \A n \in {"G", "G_refiner"} :
            /\ params'[n] = params[n] + 1
            /\ \A t \in {"dist", "GAN"} : <<n, t>> \in grad'[n]]_vars

\* the loss terms stage back-propagated in the last call
BackwardTerms(stage) ==
  {last.trace[i].arg : i \in {j \in 1..Len(last.trace) :
                                last.trace[j].ev = ".backward"
                                  /\ last.trace[j].net = stage}}

\* the terms a D step is to apply: rr and fr, and the two penalties under
\* 'wgangp'
DStepTerms ==
  {"rr", "fr"} \cup (IF config.GAN_LOSS1 = "wgangp" THEN {"gp_fr", "gp_rf"} ELSE {})

====
